---- MODULE Spec2Model ----
(***************************************************************************)
(* Model of the documentation-generation service: the Flask front end      *)
(* (app.py: generate, run_analysis_job_wrapper, api_status, download,      *)
(* cleanup_job_files), the engine (engine.py: cleanup_old_jobs,            *)
(* clone_repo, get_code_files, run_analysis_job, safe_remove_dir) and the  *)
(* content-generation adapter (ai_content.py).                             *)
(*                                                                         *)
(* Representation of names.  A file or directory name is the sequence of   *)
(* its dot-separated segments: "main.py" is <<"main","py">>, ".gitignore"  *)
(* is <<"","gitignore">>, "a.tar.gz" is <<"a","tar","gz">>, "Makefile" is  *)
(* <<"Makefile">>.  A path relative to the source root is a record         *)
(* [dir |-> sequence of directory names, name |-> file name].              *)
(*                                                                         *)
(* Atomicity.  One action is one access to state shared between threads    *)
(* (the Datastore, the workspace directory) together with the thread-local *)
(* computation around it.                                                  *)
(***************************************************************************)
EXTENDS Integers, Sequences, FiniteSets, TLC

\* ---------------------------------------------------------------- bounds
\* Number of job ids uuid4 hands out (one generate request each).
MaxJobs == 2
\* Largest number of files in a repository cloned while jobs run concurrently.
MaxFiles == 1
\* Largest number of files in a repository cloned by a job that runs alone.
MaxSoloFiles == 2
\* Largest number of entries in a tree get_code_files is run on by itself.
MaxWalkFiles == 3

JobIds == 1..MaxJobs

\* ------------------------------------------------------ names and paths
File(d, n) == [dir |-> d, name |-> n]

\* The files a cloned repository may hold.
FileUniverse ==
    { File(<<>>, <<"main", "py">>),
      File(<<>>, <<"main", "js">>),
      File(<<>>, <<"image", "png">>),
      File(<<>>, <<"", "gitignore">>),
      File(<<<<"docs">>>>, <<"guide", "py">>),
      File(<<<<"pkg">>>>, <<"util", "py">>) }

\* The files of the repositories cloned while jobs run concurrently.
SmallUniverse ==
    { File(<<>>, <<"main", "py">>),
      File(<<>>, <<"image", "png">>) }

\* str.endswith(ext) for an extension ext written as its segments after the
\* leading dot: ".tar.gz" is <<"tar","gz">>.
EndsWith(name, ext) ==
    /\ Len(name) > Len(ext)
    /\ SubSeq(name, Len(name) - Len(ext) + 1, Len(name)) = ext

\* os.path.splitext: the extension starts at the last dot of the file name,
\* unless only dots precede it.
HasExt(name) ==
    /\ Len(name) >= 2
    /\ \E i \in 1..(Len(name) - 1) : name[i] # ""

splitext_base(name) ==
    IF HasExt(name) THEN SubSeq(name, 1, Len(name) - 1) ELSE name

\* base + ".md"
MdName(name) == Append(splitext_base(name), "md")

\* The output path of the explanation of the file at relative path f.
MdPath(f) == File(f.dir, MdName(f.name))

OverviewPath == File(<<>>, <<"_PROJECT_OVERVIEW", "md">>)

\* ------------------------------------------------------- get_code_files
ignored_dirs ==
    { <<"", "git">>, <<"", "svn">>, <<"", "hg">>, <<"", "bzr">>,
      <<"node_modules">>, <<"venv">>, <<"env">>, <<"", "venv">>, <<"", "env">>,
      <<"virtualenv">>, <<"venv", "bak">>,
      <<"__pycache__">>, <<"dist">>, <<"build">>,
      <<"", "pytest_cache">>, <<"", "mypy_cache">>,
      <<"", "idea">>, <<"", "vscode">>, <<"", "vs">>, <<"", "sublime">>,
      <<"", "atom">>, <<"", "eclipse">>, <<"", "settings">>,
      <<"target">>, <<"out">>, <<"bin">>, <<"obj">>, <<"", "gradle">>, <<"", "mvn">>,
      <<"logs">>, <<"log">>, <<"cache">>, <<"", "cache">>, <<"tmp">>, <<"temp">>,
      <<"docs">>, <<"documentation">>, <<"doc">>,
      <<"coverage">>, <<"", "coverage">>, <<"htmlcov">>,
      <<"", "DS_Store">>, <<"Thumbs", "db">>, <<"bower_components">>,
      <<"jspm_packages">>,
      \* the two entries that hold a wildcard, as literal names
      <<"*", "egg-info">>, <<"*", "egg">> }

\* The wildcard entries of ignored_dirs, '*.egg-info' and '*.egg', as the
\* suffix fnmatch requires.
ignored_dir_patterns == { <<"egg-info">>, <<"egg">> }

should_ignore_dir_exact(dirname) == dirname \in ignored_dirs

should_ignore_dir(dirname) ==
    \/ dirname \in ignored_dirs
    \/ \E p \in ignored_dir_patterns : EndsWith(dirname, p)

ignored_exts ==
    { <<"exe">>, <<"dll">>, <<"so">>, <<"dylib">>, <<"o">>, <<"obj">>,
      <<"pyc">>, <<"pyo">>, <<"pyd">>,
      <<"egg">>, <<"whl">>, <<"tar", "gz">>, <<"tar", "bz2">>, <<"tgz">>,
      <<"tbz">>, <<"tar", "xz">>, <<"txz">>,
      <<"swp">>, <<"swo">>, <<"bak">>, <<"tmp">>,
      <<"lock">>, <<"log">>, <<"svg">>, <<"png">>, <<"jpg">>, <<"jpeg">>,
      <<"ico">>, <<"gif">>, <<"pdf">>, <<"zip">>,
      <<"doc">>, <<"docx">>, <<"xls">>, <<"xlsx">>, <<"ppt">>, <<"pptx">>,
      <<"mp3">>, <<"mp4">>, <<"avi">>, <<"mov">>, <<"wav">>,
      <<"env">>, <<"ini">>, <<"cfg">>, <<"yml">>, <<"yaml">>,
      <<"db">>, <<"sqlite">>, <<"sqlite3">>, <<"mdb">>, <<"accdb">>,
      <<"cache">>, <<"temp">>,
      <<"ttf">>, <<"otf">>, <<"woff">>, <<"woff2">>, <<"eot">>,
      <<"safetensors">>, <<"pt">>, <<"pth">>, <<"h5">>, <<"hdf5">>,
      <<"onnx">>, <<"pb">>, <<"tflite">>, <<"mlmodel">> }

hidden_allowlist == { <<"", "gitignore">>, <<"", "env", "example">> }

\* The per-file checks of the walk, for the regular, small, text files of
\* FileUniverse: hidden-file rule, then extension denylist.
file_passes(name) ==
    /\ ~(name[1] = "" /\ name \notin hidden_allowlist)
    /\ ~(\E ext \in ignored_exts : EndsWith(name, ext))

\* os.walk prunes every ignored directory, so a file is visited iff no
\* directory on its path is ignored.
walk_visits(f) == \A i \in 1..Len(f.dir) : ~should_ignore_dir(f.dir[i])

eligible(f) == walk_visits(f) /\ file_passes(f.name)

get_code_files_unfiltered(tree) == tree

\* get_code_files(repo_path) on a tree holding the files of `tree`, in walk
\* order; os.walk of a path that does not exist yields nothing.
get_code_files(tree) == SelectSeq(tree, eligible)


\* ------------------------------------------------------------ the state
VARIABLES
    ids,          \* the job ids uuid4 has not handed out yet
    remote,       \* the repositories a clone of the submitted URLs can yield
    db,           \* Datastore, kind 'Job': job id -> entity, or NoEntity
    pc,           \* position of the worker thread of each job
    entity,       \* job_entity, the worker's local copy of its entity
    todo,         \* cleanup_old_jobs: names listed and not yet visited
    files,        \* files_to_analyze
    idx,          \* position of the per-file loop in files_to_analyze
    explanation,  \* the explanation on its way to the output file
    summaries,    \* individual_summaries
    outcome,      \* how run_analysis_job ended: value returned or error raised
    src,          \* workspace: temp_repo_<id>, the files it holds, or Absent
    out,          \* workspace: output_repo_<id>, .md path -> document, or Absent
    zip,          \* workspace: documentation_<id>.zip, its members, or Absent
    cl,           \* position of the cleanup thread a download started
    clones,       \* number of calls of git.Repo.clone_from made for the job
    blocked,      \* the job's own cleanup block met a deletion the OS refused
    stream,       \* the body of a download response for the job is being sent
    handle,       \* the Repo object git.Repo.clone_from returned to the job
    overviews,    \* number of calls of generate_project_overview made for the job
    refused,      \* the job's cleanup_old_jobs met a deletion that failed
    scan,         \* one walk of get_code_files over a tree, step by step
    removal       \* one call of safe_remove_dir, step by step

vars == <<ids, remote, db, pc, entity, todo, files, idx, explanation, summaries,
          outcome, src, out, zip, cl, clones, blocked, stream, handle, overviews,
          refused, scan, removal>>

\* ------------------------------------------------------------- values
NoneVal == <<>>

\* An entry of the workspace directory that does not exist.
AbsentTree == [exists |-> FALSE, tree |-> <<>>]
AbsentDocs == [exists |-> FALSE, docs |-> {}]

Tree(t) == [exists |-> TRUE, tree |-> t]
Docs(d) == [exists |-> TRUE, docs |-> d]

\* open(path, 'w').write(doc) in a directory holding `docs`: a file of the
\* same path is replaced.
WriteDoc(docs, path, doc) ==
    {e \in docs : e.path # path} \cup {[path |-> path, doc |-> doc]}

\* individual_summaries[key] = val
DictSet(d, key, val) ==
    {e \in d : e.key # key} \cup {[key |-> key, val |-> val]}

\* What datastore_client.get returns for a key that was never put.
NoEntity ==
    [status |-> "NOT_FOUND", download_url |-> NoneVal, error_message |-> NoneVal]

ZipName(j) == <<"documentation_", j, ".zip">>

\* shutil.make_archive returns the path of the archive it wrote.
ZipPath(j) == <<"workspace", ZipName(j)>>

basename(path) == path[Len(path)]

\* str(e) of the errors a run can raise.
CloneErrors ==
    { <<"Cmd('git') failed due to: exit code(128)">>,
      <<"Cmd('git') failed due to: exit code(1)">> }

FileNotFound == <<"[Errno 2] No such file or directory">>

NoFilesMessage ==
    <<"No suitable files were found to analyze in the repository.">>

\* The repositories a clone may produce: every sequence (walk order) of at
\* most MaxFiles distinct files.
RECURSIVE SeqsOver(_, _)
SeqsOver(S, n) ==
    IF n = 0 THEN {<<>>}
    ELSE LET shorter == SeqsOver(S, n - 1)
         IN  shorter \cup
             {Append(t, f) : <<t, f>> \in
                 {pr \in shorter \X S :
                     \A i \in 1..Len(pr[1]) : pr[1][i] # pr[2]}}

Repos == SeqsOver(SmallUniverse, MaxFiles)

SoloRepos == SeqsOver(FileUniverse, MaxSoloFiles)

\* ------------------------------------------------------- ai_content.py
\* generate_file_explanation: the model's answer under a title, or, when the
\* call raised, an error document.  A document is its sequence of lines.
generate_file_explanation(filename, answered) ==
    IF answered
    THEN << <<"# Explanation for", filename>>, <<>>, <<"response.text">> >>
    ELSE << <<"# Error Analyzing", filename>>, <<>>,
            <<"An error occurred while communicating with the AI model:", "e">> >>

generate_project_overview(answered) ==
    IF answered
    THEN << <<"response.text">> >>
    ELSE << <<"# Error Generating Project Overview">>, <<>>,
            <<"An error occurred while communicating with the AI model:", "e">> >>

\* explanation.split('\n')[0]
first_line(doc) == Head(doc)

\* ----------------------------------------------------------------- Init
Running == [kind |-> "running", val |-> NoneVal]
Returned(v) == [kind |-> "returned", val |-> v]
Raised(e) == [kind |-> "raised", val |-> e]

\* The entity generate puts for a new job.
new_job_entity ==
    [status |-> "PENDING", download_url |-> NoneVal, error_message |-> NoneVal]

\* No download is being served, no Repo object exists, no overview was asked
\* for, no sweep has failed.
InitThreads ==
    /\ stream = [j \in JobIds |-> FALSE]
    /\ handle = [j \in JobIds |-> "none"]
    /\ overviews = [j \in JobIds |-> 0]
    /\ refused = [j \in JobIds |-> FALSE]

\* get_code_files and safe_remove_dir are run inside the jobs only.
InitInJobs ==
    /\ scan = NoneVal
    /\ removal = NoneVal

InitJobs ==
    /\ db = [j \in JobIds |-> NoEntity]
    /\ pc = [j \in JobIds |-> "none"]
    /\ entity = [j \in JobIds |-> NoEntity]
    /\ todo = [j \in JobIds |-> {}]
    /\ files = [j \in JobIds |-> <<>>]
    /\ idx = [j \in JobIds |-> 0]
    /\ explanation = [j \in JobIds |-> <<>>]
    /\ summaries = [j \in JobIds |-> {}]
    /\ outcome = [j \in JobIds |-> Running]
    /\ src = [j \in JobIds |-> AbsentTree]
    /\ out = [j \in JobIds |-> AbsentDocs]
    /\ zip = [j \in JobIds |-> AbsentDocs]
    /\ cl = [j \in JobIds |-> "idle"]
    /\ clones = [j \in JobIds |-> 0]
    /\ blocked = [j \in JobIds |-> FALSE]
    /\ InitThreads

\* The service with MaxJobs submissions to come.
Init ==
    /\ ids = JobIds
    /\ remote = Repos
    /\ InitJobs
    /\ InitInJobs

\* The job of an earlier process of the service that was killed in its cleanup
\* block: its trees and its archive are still in the workspace, its entity
\* is still PROCESSING, and no thread runs for it.
LeftoverId == MaxJobs

LeftoverDocs ==
    { [path |-> MdPath(File(<<>>, <<"main", "py">>)),
       doc |-> generate_file_explanation(<<"main", "py">>, TRUE)],
      [path |-> OverviewPath, doc |-> generate_project_overview(TRUE)] }

\* The service with one submission to come, started in a workspace that holds
\* the leftovers of a killed job.
InitSolo ==
    /\ ids = {1}
    /\ remote = SoloRepos
    /\ db = [j \in JobIds |->
               IF j = LeftoverId THEN [new_job_entity EXCEPT !.status = "PROCESSING"]
               ELSE NoEntity]
    /\ pc = [j \in JobIds |-> IF j = LeftoverId THEN "killed" ELSE "none"]
    /\ entity = [j \in JobIds |-> NoEntity]
    /\ todo = [j \in JobIds |-> {}]
    /\ files = [j \in JobIds |-> <<>>]
    /\ idx = [j \in JobIds |-> 0]
    /\ explanation = [j \in JobIds |-> <<>>]
    /\ summaries = [j \in JobIds |-> {}]
    /\ outcome = [j \in JobIds |-> Running]
    /\ src = [j \in JobIds |->
                IF j = LeftoverId THEN Tree(<<File(<<>>, <<"main", "py">>)>>)
                ELSE AbsentTree]
    /\ out = [j \in JobIds |->
                IF j = LeftoverId THEN Docs(LeftoverDocs) ELSE AbsentDocs]
    /\ zip = [j \in JobIds |->
                IF j = LeftoverId THEN Docs(LeftoverDocs) ELSE AbsentDocs]
    /\ cl = [j \in JobIds |-> "idle"]
    /\ clones = [j \in JobIds |-> 0]
    /\ blocked = [j \in JobIds |-> FALSE]
    /\ InitThreads
    /\ InitInJobs

\* --------------------------------------------------------------- app.py
\* generate: uuid4 yields an id no job has had; the entity is put with status
\* PENDING and the worker thread is started.
generate(j) ==
    /\ j \in ids
    /\ \A k \in ids : j <= k
    /\ ids' = ids \ {j}
    /\ remote' = remote
    /\ db' = [db EXCEPT ![j] = new_job_entity]
    /\ pc' = [pc EXCEPT ![j] = "wrapper"]
    /\ UNCHANGED <<entity, todo, files, idx, explanation, summaries,
                   outcome, src, out, zip, cl, clones, blocked>>
    /\ UNCHANGED <<stream, handle, overviews, refused, scan, removal>>

\* run_analysis_job_wrapper, up to the call of run_analysis_job: get the
\* entity, set PROCESSING, put it.
wrapper_start(j) ==
    /\ pc[j] = "wrapper"
    /\ LET e == [db[j] EXCEPT !.status = "PROCESSING"]
       IN  /\ entity' = [entity EXCEPT ![j] = e]
           /\ db' = [db EXCEPT ![j] = e]
    /\ pc' = [pc EXCEPT ![j] = "list_zips"]
    /\ UNCHANGED <<ids, remote, todo, files, idx, explanation, summaries,
                   outcome, src, out, zip, cl, clones, blocked>>
    /\ UNCHANGED <<stream, handle, overviews, refused, scan, removal>>

\* run_analysis_job_wrapper after run_analysis_job returned or raised: the
\* local entity is updated and put once.
wrapper_result_requeue(e, oc) ==
    IF oc.kind = "raised"
    THEN [e EXCEPT !.status = "FAILED", !.error_message = oc.val]
    ELSE IF oc.val # NoneVal
         THEN [e EXCEPT !.status = "COMPLETE",
                        !.download_url = <<"/download/", basename(oc.val)>>]
         ELSE [e EXCEPT !.status = "PENDING"]

wrapper_result_no_url(e, oc) ==
    IF oc.kind = "raised"
    THEN [e EXCEPT !.status = "FAILED", !.error_message = oc.val]
    ELSE IF oc.val # NoneVal
         THEN [e EXCEPT !.status = "COMPLETE"]
         ELSE [e EXCEPT !.status = "FAILED", !.error_message = NoFilesMessage]

wrapper_result_generic_error(e, oc) ==
    IF oc.kind = "raised"
    THEN [e EXCEPT !.status = "FAILED",
                   !.error_message = <<"The job failed with an unexpected error.">>]
    ELSE IF oc.val # NoneVal
         THEN [e EXCEPT !.status = "COMPLETE",
                        !.download_url = <<"/download/", basename(oc.val)>>]
         ELSE [e EXCEPT !.status = "FAILED", !.error_message = NoFilesMessage]

wrapper_result_uncaught(e, oc) ==
    IF oc.kind = "raised"
    THEN e
    ELSE IF oc.val # NoneVal
         THEN [e EXCEPT !.status = "COMPLETE",
                        !.download_url = <<"/download/", basename(oc.val)>>]
         ELSE [e EXCEPT !.status = "FAILED", !.error_message = NoFilesMessage]

wrapper_result(e, oc) ==
    IF oc.kind = "raised"
    THEN [e EXCEPT !.status = "FAILED", !.error_message = oc.val]
    ELSE IF oc.val # NoneVal
         THEN [e EXCEPT !.status = "COMPLETE",
                        !.download_url = <<"/download/", basename(oc.val)>>]
         ELSE [e EXCEPT !.status = "FAILED", !.error_message = NoFilesMessage]

wrapper_finish(j) ==
    /\ pc[j] = "return"
    /\ LET e == wrapper_result(entity[j], outcome[j])
       IN  /\ entity' = [entity EXCEPT ![j] = e]
           /\ db' = [db EXCEPT ![j] = e]
    /\ pc' = [pc EXCEPT ![j] = "done"]
    \* the thread ends, and the locals of run_analysis_job with it
    /\ files' = [files EXCEPT ![j] = <<>>]
    /\ summaries' = [summaries EXCEPT ![j] = {}]
    /\ blocked' = [blocked EXCEPT ![j] = FALSE]
    /\ UNCHANGED <<ids, remote, todo, idx, explanation, outcome, src, out, zip, cl, clones>>
    /\ UNCHANGED <<stream, handle, overviews, refused, scan, removal>>

\* api_status: the entity as stored, or NOT_FOUND with code 404; the request
\* changes nothing.
api_status_response(j) == db[j]

api_status(j) ==
    /\ j \in JobIds
    /\ UNCHANGED <<ids, remote, db, pc, entity, todo, files, idx, explanation, summaries,
                   outcome, src, out, zip, cl, clones, blocked>>
    /\ UNCHANGED <<stream, handle, overviews, refused, scan, removal>>

\* download: send_from_directory opens the archive and returns a response
\* that streams it (404 when there is no archive); trigger_cleanup, registered
\* with after_this_request, runs when the view has returned that response,
\* before the server sends its body, and starts a thread running
\* cleanup_job_files.  The download link is shown once the job is COMPLETE.
download(j) ==
    /\ db[j].status = "COMPLETE"
    /\ cl[j] = "idle"
    /\ ~stream[j]
    /\ stream' = [stream EXCEPT ![j] = zip[j].exists]
    /\ cl' = [cl EXCEPT ![j] = "repo"]
    /\ UNCHANGED <<ids, remote, db, pc, entity, todo, files, idx, explanation,
                   summaries, outcome, src, out, zip, clones, blocked>>
    /\ UNCHANGED <<handle, overviews, refused, scan, removal>>

\* The server has handed the last bytes of the response body to the transport.
send_body(j) ==
    /\ stream[j]
    /\ stream' = [stream EXCEPT ![j] = FALSE]
    /\ UNCHANGED <<ids, remote, db, pc, entity, todo, files, idx, explanation,
                   summaries, outcome, src, out, zip, cl, clones, blocked>>
    /\ UNCHANGED <<handle, overviews, refused, scan, removal>>

\* What shutil.rmtree(path) can do: remove the tree, or fail on the way with
\* PermissionError or another OSError; on a path that does not exist it
\* raises FileNotFoundError.  os.remove has the same outcomes.
RmtreeOutcomes(exists) ==
    IF exists THEN {"removed", "PermissionError", "OSError"}
    ELSE {"FileNotFoundError"}

\* except (subprocess.CalledProcessError, OSError) and except OSError:
\* PermissionError and FileNotFoundError are subclasses of OSError.
cleanup_job_files_catches(o) ==
    o \in {"PermissionError", "OSError", "FileNotFoundError"}

\* Where the cleanup thread goes after a removal that ended with o: an error
\* no except clause catches ends the thread.
CleanupGoes(o, after) ==
    IF o = "removed" \/ cleanup_job_files_catches(o) THEN after ELSE "raised"

\* cleanup_job_files: three removals, each behind a test of os.path.exists.
\* The source tree: shutil.rmtree, and after an error that was caught
\* shutil.rmtree(ignore_errors=True), which removes the tree or gives up.
\* The output tree: shutil.rmtree(ignore_errors=True).  The archive:
\* os.remove.  A removal that fails leaves the entry in place.
cleanup_job_files(j) ==
    /\ \/ /\ cl[j] = "repo"
          /\ IF src[j].exists
             THEN \E o \in RmtreeOutcomes(TRUE), again \in {"removed", "ignored"} :
                     /\ src' = [src EXCEPT ![j] =
                                   IF o = "removed" \/
                                      (cleanup_job_files_catches(o) /\ again = "removed")
                                   THEN AbsentTree ELSE @]
                     /\ cl' = [cl EXCEPT ![j] = CleanupGoes(o, "output")]
             ELSE /\ src' = src
                  /\ cl' = [cl EXCEPT ![j] = "output"]
          /\ UNCHANGED <<out, zip>>
       \/ /\ cl[j] = "output"
          /\ \E again \in {"removed", "ignored"} :
                out' = [out EXCEPT ![j] =
                          IF @.exists /\ again = "removed" THEN AbsentDocs ELSE @]
          /\ cl' = [cl EXCEPT ![j] = "zip"]
          /\ UNCHANGED <<src, zip>>
       \/ /\ cl[j] = "zip"
          /\ IF zip[j].exists
             THEN \E o \in RmtreeOutcomes(TRUE) :
                     /\ zip' = [zip EXCEPT ![j] =
                                   IF o = "removed" THEN AbsentDocs ELSE @]
                     /\ cl' = [cl EXCEPT ![j] = CleanupGoes(o, "idle")]
             ELSE /\ zip' = zip
                  /\ cl' = [cl EXCEPT ![j] = "idle"]
          /\ UNCHANGED <<src, out>>
    /\ UNCHANGED <<ids, remote, db, pc, entity, todo, files, idx, explanation,
                   summaries, outcome, clones, blocked>>
    /\ UNCHANGED <<stream, handle, overviews, refused, scan, removal>>

\* ------------------------------------------------------------ engine.py
\* The thread-local variables of a run that no later step reads are reset
\* when the run ends.
EndRun(j, oc) ==
    /\ outcome' = [outcome EXCEPT ![j] = oc]
    /\ pc' = [pc EXCEPT ![j] = "finally_repo"]
    /\ idx' = [idx EXCEPT ![j] = 0]
    /\ explanation' = [explanation EXCEPT ![j] = <<>>]

\* os.listdir(current_dir): the archives, source trees and output trees
\* that exist, each as the pair of its kind and the job id in its name.
listdir ==
    {<<"zip", k>> : k \in {i \in JobIds : zip[i].exists}} \cup
    {<<"src", k>> : k \in {i \in JobIds : src[i].exists}} \cup
    {<<"out", k>> : k \in {i \in JobIds : out[i].exists}}

\* file.startswith("documentation_") and file.endswith(".zip")
old_zips(listing) == {e \in listing : e[1] = "zip"}

old_dirs_temp_only(listing) == {e \in listing : e[1] = "src"}

\* (item.startswith("output_repo_") or item.startswith("temp_repo_")) and
\* os.path.isdir(...)
old_dirs(listing) == {e \in listing : e[1] \in {"out", "src"}}

\* cleanup_old_jobs, first loop: os.listdir, keeping documentation_*.zip.
list_zips(j) ==
    /\ pc[j] = "list_zips"
    /\ todo' = [todo EXCEPT ![j] = old_zips(listdir)]
    /\ pc' = [pc EXCEPT ![j] = "remove_zips"]
    /\ UNCHANGED <<ids, remote, db, entity, files, idx, explanation, summaries,
                   outcome, src, out, zip, cl, clones, blocked>>
    /\ UNCHANGED <<stream, handle, overviews, refused, scan, removal>>

\* One iteration of the first loop: os.remove of a listed archive, in the
\* order os.listdir gave (any order); an error is printed and the loop goes on.
remove_zip(j) ==
    /\ pc[j] = "remove_zips"
    /\ \E item \in todo[j], removed \in BOOLEAN :
        /\ todo' = [todo EXCEPT ![j] = @ \ {item}]
        /\ zip' = [zip EXCEPT ![item[2]] = IF removed THEN AbsentDocs ELSE @]
        /\ refused' = [refused EXCEPT ![j] = @ \/ (zip[item[2]].exists /\ ~removed)]
    /\ UNCHANGED <<ids, remote, db, pc, entity, files, idx, explanation, summaries,
                   outcome, src, out, cl, clones, blocked>>
    /\ UNCHANGED <<stream, handle, overviews, scan, removal>>

\* cleanup_old_jobs, second loop: os.listdir, keeping output_repo_* and
\* temp_repo_*.
list_dirs(j) ==
    /\ pc[j] = "remove_zips"
    /\ todo[j] = {}
    /\ todo' = [todo EXCEPT ![j] = old_dirs(listdir)]
    /\ pc' = [pc EXCEPT ![j] = "remove_dirs"]
    /\ UNCHANGED <<ids, remote, db, entity, files, idx, explanation, summaries,
                   outcome, src, out, zip, cl, clones, blocked>>
    /\ UNCHANGED <<stream, handle, overviews, refused, scan, removal>>

\* One iteration of the second loop: isdir, then safe_remove_dir, whose
\* errors are printed; a tree the OS refuses to delete stays.
remove_dir(j) ==
    /\ pc[j] = "remove_dirs"
    /\ \E item \in todo[j], removed \in BOOLEAN :
        /\ todo' = [todo EXCEPT ![j] = @ \ {item}]
        /\ IF item[1] = "src"
           THEN /\ src' = [src EXCEPT ![item[2]] = IF removed THEN AbsentTree ELSE @]
                /\ out' = out
                /\ refused' = [refused EXCEPT ![j] =
                                  @ \/ (src[item[2]].exists /\ ~removed)]
           ELSE /\ out' = [out EXCEPT ![item[2]] = IF removed THEN AbsentDocs ELSE @]
                /\ src' = src
                /\ refused' = [refused EXCEPT ![j] =
                                  @ \/ (out[item[2]].exists /\ ~removed)]
    /\ UNCHANGED <<ids, remote, db, pc, entity, files, idx, explanation, summaries,
                   outcome, zip, cl, clones, blocked>>
    /\ UNCHANGED <<stream, handle, overviews, scan, removal>>

\* clone_repo: one call of git.Repo.clone_from, which yields a working tree or
\* raises GitCommandError, re-raised to the caller of run_analysis_job.  The
\* Repo object it returns is bound to no name: it is dropped as it is, and
\* when its finalizer runs is the interpreter's business.  cleanup_old_jobs
\* has returned when clone_repo is called.
clone_repo(j) ==
    /\ pc[j] = "remove_dirs"
    /\ todo[j] = {}
    /\ clones' = [clones EXCEPT ![j] = @ + 1]
    /\ refused' = [refused EXCEPT ![j] = FALSE]
    /\ \/ \E r \in remote :
            /\ src' = [src EXCEPT ![j] = Tree(r)]
            /\ handle' = [handle EXCEPT ![j] = "dropped"]
            /\ pc' = [pc EXCEPT ![j] = "enumerate"]
            /\ UNCHANGED <<ids, remote, outcome, idx, explanation>>
       \/ \E e \in CloneErrors :
            /\ src' = [src EXCEPT ![j] = AbsentTree]
            /\ handle' = handle
            /\ EndRun(j, Raised(e))
    /\ UNCHANGED <<ids, remote, db, entity, todo, files, summaries, out, zip, cl,
                   blocked>>
    /\ UNCHANGED <<stream, overviews, scan, removal>>

\* get_code_files and the test that follows: no file, return None; else
\* remove an old output tree and enter the loop with an empty summary dict.
enumerate(j) ==
    /\ pc[j] = "enumerate"
    /\ LET found == IF src[j].exists THEN get_code_files(src[j].tree) ELSE <<>>
       IN  /\ files' = [files EXCEPT ![j] = found]
           /\ IF found = <<>>
              THEN /\ EndRun(j, Returned(NoneVal))
                   /\ UNCHANGED <<ids, remote, out, summaries>>
              ELSE /\ out' = [out EXCEPT ![j] = AbsentDocs]
                   /\ summaries' = [summaries EXCEPT ![j] = {}]
                   /\ idx' = [idx EXCEPT ![j] = 1]
                   /\ pc' = [pc EXCEPT ![j] = "read"]
                   /\ UNCHANGED <<ids, remote, outcome, explanation>>
    /\ UNCHANGED <<ids, remote, db, entity, todo, src, zip, cl, clones, blocked>>
    /\ UNCHANGED <<stream, handle, overviews, refused, scan, removal>>

\* The position after the loop body for file idx ended.
NextFile(j) ==
    /\ idx' = [idx EXCEPT ![j] = @ + 1]
    /\ pc' = [pc EXCEPT ![j] = IF idx[j] < Len(files[j]) THEN "read" ELSE "overview"]

\* Loop body, first half: open and read the file (an error skips the file),
\* call generate_file_explanation, os.makedirs the output directory.
read_file(j) ==
    /\ pc[j] = "read"
    /\ \/ /\ NextFile(j)
          /\ UNCHANGED <<ids, remote, explanation, out>>
       \/ /\ src[j].exists
          /\ \E answered \in BOOLEAN :
                explanation' = [explanation EXCEPT ![j] =
                    generate_file_explanation(files[j][idx[j]].name, answered)]
          /\ out' = [out EXCEPT ![j] = IF @.exists THEN @ ELSE Docs({})]
          /\ pc' = [pc EXCEPT ![j] = "write"]
          /\ idx' = idx
    /\ UNCHANGED <<ids, remote, db, entity, todo, files, summaries, outcome, src,
                   zip, cl, clones, blocked>>
    /\ UNCHANGED <<stream, handle, overviews, refused, scan, removal>>

\* Loop body, second half: write base + ".md" and record the first line
\* under the relative path.  open raises when the directory is gone.
write_file(j) ==
    /\ pc[j] = "write"
    /\ IF out[j].exists
       THEN /\ out' = [out EXCEPT ![j] =
                    Docs(WriteDoc(@.docs, MdPath(files[j][idx[j]]), explanation[j]))]
            /\ summaries' = [summaries EXCEPT ![j] =
                    DictSet(@, files[j][idx[j]], first_line(explanation[j]))]
            /\ explanation' = [explanation EXCEPT ![j] = <<>>]
            /\ NextFile(j)
            /\ UNCHANGED outcome
       ELSE /\ EndRun(j, Raised(FileNotFound))
            /\ UNCHANGED <<ids, remote, out, summaries>>
    /\ UNCHANGED <<ids, remote, db, entity, todo, files, src, zip, cl, clones,
                   blocked>>
    /\ UNCHANGED <<stream, handle, overviews, refused, scan, removal>>

\* generate_project_overview over individual_summaries, then the write of
\* _PROJECT_OVERVIEW.md at the root of the output tree.
write_overview(j) ==
    /\ pc[j] = "overview"
    /\ overviews' = [overviews EXCEPT ![j] = @ + 1]
    /\ IF out[j].exists
       THEN /\ \E answered \in BOOLEAN :
                out' = [out EXCEPT ![j] =
                    Docs(WriteDoc(@.docs, OverviewPath,
                                  generate_project_overview(answered)))]
            /\ pc' = [pc EXCEPT ![j] = "make_archive"]
            /\ UNCHANGED <<ids, remote, outcome, idx, explanation>>
       ELSE /\ EndRun(j, Raised(FileNotFound))
            /\ out' = out
    /\ UNCHANGED <<ids, remote, db, entity, todo, files, summaries, src, zip, cl,
                   clones, blocked>>
    /\ UNCHANGED <<stream, handle, refused, scan, removal>>

\* shutil.make_archive of the output tree, first part: os.stat(root_dir)
\* raises when the tree is gone, before any file is made; otherwise
\* zipfile.ZipFile(zip_filename, "w") creates documentation_<id>.zip, empty
\* (an archive of that name is truncated).
make_archive(j) ==
    /\ pc[j] = "make_archive"
    /\ IF out[j].exists
       THEN /\ zip' = [zip EXCEPT ![j] = Docs({})]
            /\ pc' = [pc EXCEPT ![j] = "archive"]
            /\ UNCHANGED <<outcome, idx, explanation>>
       ELSE /\ EndRun(j, Raised(FileNotFound))
            /\ zip' = zip
    /\ UNCHANGED <<ids, remote, db, entity, todo, files, summaries, src, out, cl,
                   clones, blocked>>
    /\ UNCHANGED <<stream, handle, overviews, refused, scan, removal>>

\* shutil.make_archive, second part: the walk of the output tree that writes
\* each entry into the open archive, and its close.  With the tree in place
\* the archive gets every document and make_archive returns its path.  With
\* the tree removed since the archive was opened, the walk either finds
\* nothing (os.walk ignores the error) and make_archive returns the path of
\* the archive as it is, or it has listed an entry that is gone when
\* ZipFile.write reaches it, and FileNotFoundError leaves make_archive and the
\* run: the archive file, closed by the with statement, stays on disk.  An
\* archive unlinked while it was open is not on disk after the close.
make_zipfile(j) ==
    /\ pc[j] = "archive"
    /\ IF out[j].exists
       THEN /\ zip' = [zip EXCEPT ![j] = IF @.exists THEN Docs(out[j].docs) ELSE @]
            /\ EndRun(j, Returned(ZipPath(j)))
       ELSE /\ zip' = zip
            /\ \E listed \in BOOLEAN :
                  EndRun(j, IF listed THEN Raised(FileNotFound)
                                      ELSE Returned(ZipPath(j)))
    /\ UNCHANGED <<ids, remote, db, entity, todo, files, summaries, src, out, cl,
                   clones, blocked>>
    /\ UNCHANGED <<stream, handle, overviews, refused, scan, removal>>

\* safe_remove_dir, split at its two accesses to the workspace.  The test
\* os.path.exists: where the function goes when the path is absent (it
\* returns, at `after`) or present (it calls shutil.rmtree, at `rm`).
safe_remove_dir_untested(exists, rm, after) == rm

safe_remove_dir_test(exists, rm, after) == IF exists THEN rm ELSE after

\* A path is the sequence of its components, each a name.  repo_path and
\* output_path of run_analysis_job: "./temp_repo_<id>", "./output_repo_<id>".
RepoPath(j) == << <<"", "">>, << <<"temp_repo_", j>> >> >>
OutputPath(j) == << <<"", "">>, << <<"output_repo_", j>> >> >>

\* The name segments that begin with "git": a dot followed by one of them is
\* an occurrence of ".git".
GitSegments == {"git", "github", "gitignore", "gitmodules"}

\* '.git' in path
dot_git_in(path) ==
    \E i \in 1..Len(path) : \E k \in 2..Len(path[i]) : path[i][k] \in GitSegments

\* The except clause of safe_remove_dir catches PermissionError only.
safe_remove_dir_catches(o) == o = "PermissionError"

\* After a PermissionError on a path that holds ".git": chmod of the entries,
\* then shutil.rmtree(path, ignore_errors=True), which removes the tree or
\* gives up silently; on any other path there is no second attempt.
RetryOutcomes(path, o) ==
    IF o = "PermissionError" /\ dot_git_in(path)
    THEN {"removed", "ignored"}
    ELSE {"none"}

\* Where the cleanup block goes after shutil.rmtree(repo_path) ended with o:
\* an error safe_remove_dir does not catch leaves it and is caught by the
\* cleanup block, which prints a warning and ends.
RmtreeGoes(o, after) ==
    IF o = "removed" \/ safe_remove_dir_catches(o) THEN after ELSE "return"

finally_repo(j) ==
    /\ pc[j] = "finally_repo"
    /\ pc' = [pc EXCEPT ![j] =
                safe_remove_dir_test(src[j].exists, "rmtree_repo", "finally_output")]
    /\ UNCHANGED <<ids, remote, db, entity, todo, files, idx, explanation, summaries,
                   outcome, src, out, zip, cl, clones, blocked>>
    /\ UNCHANGED <<stream, handle, overviews, refused, scan, removal>>

rmtree_repo(j) ==
    /\ pc[j] = "rmtree_repo"
    /\ \E o \in RmtreeOutcomes(src[j].exists) :
        \E again \in RetryOutcomes(RepoPath(j), o) :
            /\ pc' = [pc EXCEPT ![j] = RmtreeGoes(o, "finally_output")]
            /\ src' = [src EXCEPT ![j] =
                          IF "removed" \in {o, again} THEN AbsentTree ELSE @]
            /\ blocked' = [blocked EXCEPT ![j] =
                              @ \/ (src[j].exists /\ "removed" \notin {o, again})]
    /\ UNCHANGED <<ids, remote, db, entity, todo, files, idx, explanation, summaries,
                   outcome, out, zip, cl, clones>>
    /\ UNCHANGED <<stream, handle, overviews, refused, scan, removal>>

\* safe_remove_dir(output_path): nothing follows it in the cleanup block, so
\* its test and its rmtree are one step.
finally_output(j) ==
    /\ pc[j] = "finally_output"
    /\ pc' = [pc EXCEPT ![j] = "return"]
    /\ \E removed \in BOOLEAN :
        /\ out' = [out EXCEPT ![j] = IF removed THEN AbsentDocs ELSE @]
        /\ blocked' = [blocked EXCEPT ![j] = @ \/ (out[j].exists /\ ~removed)]
    /\ UNCHANGED <<ids, remote, db, entity, todo, files, idx, explanation, summaries,
                   outcome, src, zip, cl, clones>>
    /\ UNCHANGED <<stream, handle, overviews, refused, scan, removal>>

\* ------------------------------------------- get_code_files, step by step
\* What os.walk finds at a path: the relative path of the entry, the size
\* os.path.getsize gives, whether os.path.islink holds, and whether is_text_file
\* holds of its first 1024 bytes.
Entry(d, n, size, link, text) ==
    [path |-> File(d, n), size |-> size, link |-> link, text |-> text]

max_file_size_kb == 1000

too_large_at_cap(size) == size >= max_file_size_kb * 1024

\* os.path.getsize(file_path) > max_file_size_kb * 1024
too_large(size) == size > max_file_size_kb * 1024

\* The checks of the loop body on one file, in the order of the code: hidden
\* name, extension, symlink, size, binary content.
file_accepted(e) ==
    /\ file_passes(e.path.name)
    /\ ~e.link
    /\ ~too_large(e.size)
    /\ e.text

\* The entries the walked trees are made of.
WalkUniverse ==
    { Entry(<<>>, <<"main", "py">>, 1000 * 1024, FALSE, TRUE),
      Entry(<<>>, <<"big", "py">>, 1000 * 1024 + 1, FALSE, TRUE),
      Entry(<<>>, <<"image", "png">>, 1000 * 1024, FALSE, FALSE),
      Entry(<<>>, <<"link", "py">>, 12, TRUE, TRUE),
      Entry(<<>>, <<"blob", "py">>, 1000 * 1024, FALSE, FALSE),
      Entry(<<>>, <<"test_main", "py">>, 2048, FALSE, TRUE),
      Entry(<<<<"pkg">>>>, <<"util_test", "py">>, 2048, FALSE, TRUE),
      Entry(<<<<"node_modules">>>>, <<"index", "js">>, 2048, FALSE, TRUE),
      Entry(<<<<"demo", "egg-info">>>>, <<"top", "py">>, 2048, FALSE, TRUE),
      Entry(<<<<"pkg">>, <<"build">>>>, <<"gen", "py">>, 2048, FALSE, TRUE),
      Entry(<<<<"build">>, <<"pkg">>>>, <<"deep", "py">>, 2048, FALSE, TRUE) }

WalkTrees == {t \in SUBSET WalkUniverse : Cardinality(t) <= MaxWalkFiles}

\* The directory at relative path d lies on the way to the directory dir.
IsPrefix(d, dir) == Len(d) <= Len(dir) /\ SubSeq(dir, 1, Len(d)) = d

\* dirs of the triple os.walk yields for the directory at d.
subdirs(tree, d) ==
    { e.path.dir[Len(d) + 1] :
        e \in {x \in tree : IsPrefix(d, x.path.dir) /\ Len(x.path.dir) > Len(d)} }

\* The orders in which os.walk may list the files of a directory.
Orderings(S) == {q \in SeqsOver(S, Cardinality(S)) : Len(q) = Cardinality(S)}

\* A call of get_code_files on a tree: os.walk starts at the root.
InitWalk ==
    /\ ids = {}
    /\ remote = {}
    /\ InitJobs
    /\ removal = NoneVal
    /\ scan \in {[tree |-> t, pending |-> {<<>>}, code_files |-> <<>>] : t \in WalkTrees}

\* One iteration of the loop over os.walk: the directory `root` is visited, its
\* ignored subdirectories are taken out of dirs (os.walk descends into the
\* others), and each of its files that passes the checks is appended.
walk_step ==
    /\ \E root \in scan.pending :
          LET dirs == {n \in subdirs(scan.tree, root) : ~should_ignore_dir(n)}
              found == {e.path : e \in {x \in scan.tree :
                                          x.path.dir = root /\ file_accepted(x)}}
          IN  \E order \in Orderings(found) :
                scan' = [scan EXCEPT
                           !.pending = (@ \ {root}) \cup {Append(root, n) : n \in dirs},
                           !.code_files = @ \o order]
    /\ UNCHANGED <<ids, remote, db, pc, entity, todo, files, idx, explanation,
                   summaries, outcome, src, out, zip, cl, clones, blocked>>
    /\ UNCHANGED <<stream, handle, overviews, refused, removal>>

NextWalk == walk_step

SpecWalk == InitWalk /\ [][NextWalk]_vars

\* ------------------------------------------ safe_remove_dir, step by step
\* current_dir of cleanup_old_jobs, the directory engine.py is installed in.
AppDirs ==
    { << <<"srv">>, <<"app">> >>,
      << <<"opt">>, <<"Codebase_project">> >>,
      << <<"home">>, <<"me", "github", "io">> >> }

\* The paths safe_remove_dir is called with: repo_path and output_path of
\* run_analysis_job, and os.path.join(current_dir, item) of cleanup_old_jobs.
RemovalPaths ==
    {RepoPath(j) : j \in JobIds} \cup {OutputPath(j) : j \in JobIds} \cup
    {Append(d, RepoPath(j)[2]) : d \in AppDirs, j \in JobIds} \cup
    {Append(d, OutputPath(j)[2]) : d \in AppDirs, j \in JobIds}

\* A call of safe_remove_dir(path), on a tree that exists or not.
InitRemoval ==
    /\ ids = {}
    /\ remote = {}
    /\ InitJobs
    /\ scan = NoneVal
    /\ removal \in {[path |-> p, exists |-> e, at |-> "test", err |-> "none",
                      rmtrees |-> 0, chmods |-> 0] :
                         p \in RemovalPaths, e \in BOOLEAN}

RemovalUnchanged ==
    /\ UNCHANGED <<ids, remote, db, pc, entity, todo, files, idx, explanation,
                   summaries, outcome, src, out, zip, cl, clones, blocked>>
    /\ UNCHANGED <<stream, handle, overviews, refused, scan>>

\* if not os.path.exists(path): return
srd_test ==
    /\ removal.at = "test"
    /\ removal' = [removal EXCEPT
                      !.at = safe_remove_dir_test(removal.exists, "rmtree", "returned")]
    /\ RemovalUnchanged

\* Another thread removes the tree between the test and shutil.rmtree.
srd_vanish ==
    /\ removal.at = "rmtree"
    /\ removal.exists
    /\ removal' = [removal EXCEPT !.exists = FALSE]
    /\ RemovalUnchanged

\* shutil.rmtree(path) and the except clause: after a PermissionError the
\* second attempt is prepared when the path holds ".git", else a warning is
\* printed; any other error is raised to the caller.
srd_rmtree ==
    /\ removal.at = "rmtree"
    /\ \E o \in RmtreeOutcomes(removal.exists) :
          removal' = [removal EXCEPT
                        !.err = o,
                        !.rmtrees = @ + 1,
                        !.exists = IF o = "removed" THEN FALSE ELSE @,
                        !.at = IF o = "removed" THEN "returned"
                               ELSE IF ~safe_remove_dir_catches(o) THEN "raised"
                               ELSE IF RetryOutcomes(removal.path, o) = {"none"}
                                    THEN "returned"
                                    ELSE "chmod"]
    /\ RemovalUnchanged

\* os.chmod(..., 0o777) of every directory and file below path; an error of
\* os.chmod is caught, a warning is printed and the function returns.
srd_chmod ==
    /\ removal.at = "chmod"
    /\ \E done \in BOOLEAN :
          removal' = [removal EXCEPT
                        !.chmods = @ + 1,
                        !.at = IF done THEN "retry" ELSE "returned"]
    /\ RemovalUnchanged

\* shutil.rmtree(path, ignore_errors=True)
srd_retry ==
    /\ removal.at = "retry"
    /\ \E again \in RetryOutcomes(removal.path, removal.err) :
          removal' = [removal EXCEPT
                        !.rmtrees = @ + 1,
                        !.exists = IF again = "removed" THEN FALSE ELSE @,
                        !.at = "returned"]
    /\ RemovalUnchanged

NextRemoval ==
    \/ srd_test
    \/ srd_vanish
    \/ srd_rmtree
    \/ srd_chmod
    \/ srd_retry

SpecRemoval == InitRemoval /\ [][NextRemoval]_vars

\* ------------------------------------------------------- specification
Next ==
    \E j \in JobIds :
        \/ generate(j)
        \/ wrapper_start(j)
        \/ list_zips(j)
        \/ remove_zip(j)
        \/ list_dirs(j)
        \/ remove_dir(j)
        \/ clone_repo(j)
        \/ enumerate(j)
        \/ read_file(j)
        \/ write_file(j)
        \/ write_overview(j)
        \/ make_archive(j)
        \/ make_zipfile(j)
        \/ finally_repo(j)
        \/ rmtree_repo(j)
        \/ finally_output(j)
        \/ wrapper_finish(j)
        \/ api_status(j)
        \/ download(j)
        \/ send_body(j)
        \/ cleanup_job_files(j)

Spec == Init /\ [][Next]_vars

SpecSolo == InitSolo /\ [][Next]_vars

\* The steps of the worker thread that generate starts for job j
\* (threading.Thread(target=run_analysis_job_wrapper).start()): the wrapper
\* and the run_analysis_job it calls.
worker(j) ==
    \/ wrapper_start(j)
    \/ list_zips(j)
    \/ remove_zip(j)
    \/ list_dirs(j)
    \/ remove_dir(j)
    \/ clone_repo(j)
    \/ enumerate(j)
    \/ read_file(j)
    \/ write_file(j)
    \/ write_overview(j)
    \/ make_archive(j)
    \/ make_zipfile(j)
    \/ finally_repo(j)
    \/ rmtree_repo(j)
    \/ finally_output(j)
    \/ wrapper_finish(j)

\* The program with each worker thread scheduled fairly: a thread that can
\* take a step is not left waiting forever, and each call it makes returns
\* or raises.  Requests (generate, status, download) and the cleanup threads
\* come when they come.
SpecFair == Init /\ [][Next]_vars /\ \A j \in JobIds : WF_vars(worker(j))

\* ================================================================ claims
\* run_analysis_job is running for job j: from its first statement until it
\* has returned or raised.
RunPcs ==
    { "list_zips", "remove_zips", "remove_dirs", "enumerate", "read", "write",
      "overview", "make_archive", "archive", "finally_repo", "rmtree_repo", "finally_output" }

InRun(j) == pc[j] \in RunPcs

Paths(tree) == {e.path : e \in tree.docs}

\* Every file of files_to_analyze has its entry in individual_summaries: each
\* was read and processed.
AllRead(j) ==
    \A i \in 1..Len(files[j]) : \E e \in summaries[j] : e.key = files[j][i]

CloneFailed(j) == outcome[j].kind = "raised" /\ outcome[j].val \in CloneErrors

StatusMoves ==
    { <<"NOT_FOUND", "PENDING">>, <<"PENDING", "PROCESSING">>,
      <<"PROCESSING", "COMPLETE">>, <<"PROCESSING", "FAILED">> }

\* C1: the stored status of a job only moves forward: generate stores PENDING,
\* the start of run_analysis_job_wrapper stores PROCESSING, the only other
\* moves are PROCESSING -> COMPLETE and PROCESSING -> FAILED, and an entity
\* that is COMPLETE or FAILED never changes again, whatever the other
\* threads do.
C1_StatusOnlyMovesForward ==
    [][\A j \in JobIds :
          /\ db'[j].status # db[j].status
                => <<db[j].status, db'[j].status>> \in StatusMoves
          /\ (j \in ids /\ j \notin ids') => db'[j].status = "PENDING"
          /\ (pc[j] = "wrapper" /\ pc'[j] # "wrapper")
                => db'[j].status = "PROCESSING"
          /\ db[j].status \in {"COMPLETE", "FAILED"} => db'[j] = db[j]]_vars

\* C1 witness: a job is COMPLETE while its post-download cleanup runs and
\* another job's worker is inside run_analysis_job.
C1_Witness ==
    \E j \in JobIds, k \in JobIds :
        /\ j # k
        /\ db[j].status = "COMPLETE"
        /\ cl[j] # "idle"
        /\ InRun(k)

\* C2: in every entity a status poll can return, download_url is set exactly
\* when the status is COMPLETE and error_message is set exactly when the
\* status is FAILED.
C2_UrlIffCompleteErrorIffFailed ==
    \A j \in JobIds :
        LET r == api_status_response(j)
        IN  r.status # "NOT_FOUND" =>
                /\ (r.download_url # NoneVal) <=> (r.status = "COMPLETE")
                /\ (r.error_message # NoneVal) <=> (r.status = "FAILED")

\* C2 witness: one job is stored COMPLETE and another FAILED.
C2_Witness ==
    \E j \in JobIds, k \in JobIds :
        /\ api_status_response(j).status = "COMPLETE"
        /\ api_status_response(k).status = "FAILED"

\* C3: while run_analysis_job runs for a job, every change of that job's
\* source tree, output tree or archive is a step of the job's own worker or
\* of its own post-download cleanup.
C3_WorkspaceTouchedOnlyByOwner ==
    [][\A j \in JobIds :
          (InRun(j) /\ <<src'[j], out'[j], zip'[j]>> # <<src[j], out[j], zip[j]>>)
              => <<pc'[j], todo'[j], idx'[j], cl'[j]>> # <<pc[j], todo[j], idx[j], cl[j]>>]_vars

\* C4: when run_analysis_job has finished, whichever way, and the OS refused
\* none of the deletions of its cleanup block, neither the job's source tree
\* nor its output tree exists.
C4_TreesGoneAtExit ==
    \A j \in JobIds :
        (pc[j] = "return" /\ ~blocked[j]) => (~src[j].exists /\ ~out[j].exists)

\* C5: after a failed clone there was exactly one clone attempt, the error
\* reaches the wrapper, the job ends FAILED with the message of the clone
\* error, and no source tree, output tree or archive of the job exists.
C5_CloneFailure ==
    \A j \in JobIds :
        CloneFailed(j) =>
            /\ clones[j] = 1
            /\ pc[j] \in {"finally_repo", "rmtree_repo", "finally_output", "return", "done"}
            /\ ~src[j].exists /\ ~out[j].exists /\ ~zip[j].exists
            /\ pc[j] = "done" =>
                   /\ db[j].status = "FAILED"
                   /\ db[j].error_message = outcome[j].val

\* C5 witness: a job whose clone failed has ended, while another job holds a
\* cloned tree.
C5_Witness ==
    \E j \in JobIds, k \in JobIds :
        /\ CloneFailed(j) /\ pc[j] = "done" /\ db[j].status = "FAILED"
        /\ src[k].exists

\* There is no eligible file under temp_repo_<j> when it is walked.
NoEligibleFile(j) ==
    \/ ~src[j].exists
    \/ \A i \in 1..Len(src[j].tree) : ~eligible(src[j].tree[i])

\* C6: when the walk finds no eligible file, run_analysis_job returns None
\* having written no explanation, no overview and no archive, and the job ends
\* FAILED with the fixed no-files message, which no clone error has.
C6_NoEligibleFile ==
    /\ [][\A j \in JobIds :
            (pc[j] = "enumerate" /\ pc'[j] # "enumerate" /\ NoEligibleFile(j))
                => outcome'[j] = Returned(NoneVal)]_vars
    /\ [](\A j \in JobIds :
            outcome[j] = Returned(NoneVal) =>
                /\ summaries[j] = {}
                /\ ~out[j].exists /\ ~zip[j].exists
                /\ pc[j] = "done" =>
                       /\ db[j].status = "FAILED"
                       /\ db[j].error_message = NoFilesMessage
                       /\ db[j].error_message \notin CloneErrors)

\* C6 witness: a job whose repository held only a denylisted file has ended
\* FAILED with the no-files message.
C6_Witness ==
    \E j \in JobIds :
        /\ pc[j] = "done"
        /\ outcome[j] = Returned(NoneVal)
        /\ clones[j] = 1
        /\ db[j].error_message = NoFilesMessage

\* C7: a run whose clone succeeded, that found at least one eligible file and
\* read every one of them returns the archive with one .md per eligible file
\* and _PROJECT_OVERVIEW.md, and the job ends COMPLETE with download_url
\* /download/documentation_<id>.zip.
C7_CompleteWithFullArchive ==
    /\ [][\A j \in JobIds :
            (pc[j] = "archive" /\ pc'[j] = "finally_repo" /\ AllRead(j)) =>
                /\ zip'[j].exists
                /\ OverviewPath \in Paths(zip'[j])
                /\ \A i \in 1..Len(files[j]) : MdPath(files[j][i]) \in Paths(zip'[j])]_vars
    /\ [](\A j \in JobIds :
            (pc[j] = "return" /\ files[j] # <<>> /\ AllRead(j)) =>
                /\ outcome[j] = Returned(ZipPath(j))
                /\ wrapper_result(entity[j], outcome[j]).status = "COMPLETE"
                /\ wrapper_result(entity[j], outcome[j]).download_url
                       = <<"/download/", ZipName(j)>>)

ErrorDoc(doc) == doc # <<>> /\ Head(doc)[1] = "# Error Analyzing"

\* C8: an explanation that is an error document is still written to the
\* file's .md and its first line recorded in individual_summaries, nothing is
\* raised, and the run still returns the archive (the job ends COMPLETE).
C8_CollaboratorFailureNotFatal ==
    /\ [][\A j \in JobIds :
            (pc[j] = "write" /\ pc'[j] # "write" /\ ErrorDoc(explanation[j])) =>
                /\ \E e \in out'[j].docs :
                      /\ e.path = MdPath(files[j][idx[j]])
                      /\ e.doc = explanation[j]
                /\ \E e \in summaries'[j] :
                      /\ e.key = files[j][idx[j]]
                      /\ e.val = first_line(explanation[j])]_vars
    /\ [](\A j \in JobIds :
            (pc[j] = "return" /\ \E e \in summaries[j] : e.val[1] = "# Error Analyzing")
                => /\ outcome[j] = Returned(ZipPath(j))
                   /\ wrapper_result(entity[j], outcome[j]).status = "COMPLETE")

\* C9: whichever candidates fail to be read, the loop goes on and a run that
\* found at least one candidate writes the overview, builds the archive and
\* returns its path.
C9_ReadFailureNeverAborts ==
    /\ [][\A j \in JobIds :
            (pc[j] = "read" /\ pc'[j] # "read")
                => pc'[j] \in {"write", "overview"}]_vars
    /\ [](\A j \in JobIds :
            (pc[j] = "return" /\ files[j] # <<>>)
                => outcome[j] = Returned(ZipPath(j)))

\* C10: when the per-file loop has ended, every candidate has exactly one
\* explanation in the output tree, at its relative path with the extension
\* replaced by .md, and no two candidates have the same such path.
C10_OneRecordPerCandidate ==
    \A j \in JobIds :
        pc[j] = "overview" =>
            /\ \A i \in 1..Len(files[j]) :
                  \E e \in out[j].docs :
                      /\ e.path = MdPath(files[j][i])
                      /\ Head(e.doc)[2] = files[j][i].name
            /\ \A i \in 1..Len(files[j]), k \in 1..Len(files[j]) :
                  i # k => MdPath(files[j][i]) # MdPath(files[j][k])
            /\ Cardinality(out[j].docs) = Len(files[j])

\* None of the job's three entries exists in the workspace.
JobClean(j) == ~src[j].exists /\ ~out[j].exists /\ ~zip[j].exists

\* C11: a run of cleanup_job_files that finds none of the job's entries (a
\* second run in a row after one that removed them, or a run for a workspace
\* that never existed) changes nothing and ends without raising; so does
\* safe_remove_dir on a path that does not exist; and once the job is over,
\* what was removed stays removed.
C11_CleanupIdempotent ==
    [][\A j \in JobIds :
          /\ (cl[j] # "idle" /\ cl'[j] # cl[j] /\ JobClean(j))
                => /\ <<src', out', zip'>> = <<src, out, zip>>
                   /\ cl'[j] # "raised"
          /\ (pc[j] = "finally_repo" /\ pc'[j] # pc[j] /\ ~src[j].exists)
                => /\ pc'[j] = "finally_output"
                   /\ <<src', out', zip'>> = <<src, out, zip>>
          /\ (pc[j] = "finally_output" /\ pc'[j] # pc[j] /\ ~out[j].exists)
                => /\ pc'[j] = "return"
                   /\ <<src', out', zip'>> = <<src, out, zip>>
                   /\ blocked'[j] = blocked[j]
          /\ (pc[j] = "done" /\ JobClean(j)) => JobClean(j)']_vars

\* C11 witness: the job is COMPLETE, a first run of cleanup_job_files removed
\* its archive, and a second run has gone through the source tree and the
\* output tree and is at the archive, with nothing left to remove.
C11_Witness ==
    \E j \in JobIds :
        /\ db[j].status = "COMPLETE"
        /\ pc[j] = "done"
        /\ cl[j] = "zip"
        /\ JobClean(j)

\* The positions of a worker inside cleanup_old_jobs or inside the cleanup
\* block of run_analysis_job.
CleanupPcs ==
    { "list_zips", "remove_zips", "finally_repo", "rmtree_repo", "finally_output" }

\* A step of cleanup_old_jobs or of the cleanup block of job j's worker, or of
\* job j's cleanup_job_files thread.
CleanupStep(j) ==
    \/ pc[j] \in CleanupPcs /\ <<pc'[j], todo'[j]>> # <<pc[j], todo[j]>>
    \/ pc[j] = "remove_dirs" /\ todo'[j] # todo[j]
    \/ cl[j] # "idle" /\ cl'[j] # cl[j]

\* C12: no cleanup operation raises to its caller, whatever makes a deletion
\* fail: safe_remove_dir(repo_path) returns to the cleanup block, which goes
\* on to safe_remove_dir(output_path); cleanup_job_files ends without raising;
\* and no step of a cleanup operation changes how the run ended or what the
\* Datastore holds.
C12_NoCleanupRaises ==
    [][\A j \in JobIds :
          /\ (pc[j] = "rmtree_repo" /\ pc'[j] # pc[j]) => pc'[j] = "finally_output"
          /\ cl'[j] # "raised"
          /\ CleanupStep(j) => (outcome' = outcome /\ db' = db)]_vars

\* C13: the cleanup a download starts begins only when the body of the
\* response has been handed to the transport: the thread running
\* cleanup_job_files takes no step, and so removes no archive, while the body
\* is being sent.
C13_CleanupAfterStream ==
    [][\A j \in JobIds :
          (cl[j] # "idle" /\ cl'[j] # cl[j]) => ~stream[j]]_vars

\* C14: on every exit path of run_analysis_job after a successful clone, the
\* Repo handle the clone returned has been closed when the cleanup block
\* sets about deleting the source tree, and it is closed when the function
\* returns.
C14_HandleClosedBeforeRemoval ==
    \A j \in JobIds :
        (handle[j] # "none" /\
         pc[j] \in {"finally_repo", "rmtree_repo", "finally_output", "return"})
            => handle[j] = "closed"

\* The directory name is an element of the ignored-directory set or matches
\* one of its wildcard patterns, *.egg-info and *.egg.
InIgnoreSet(n) ==
    \/ n \in ignored_dirs
    \/ \E p \in {<<"egg-info">>, <<"egg">>} : EndsWith(n, p)

\* C15: when the walk visits a directory, the directories it goes on to are
\* exactly the subdirectories whose name is neither in the ignored-directory
\* set nor matched by one of its wildcard patterns; so no enumerated file has
\* an ignored directory among the components of its path below the root.
C15_DescendsIffNotIgnored ==
    /\ [][\A root \in scan.pending :
            root \notin scan'.pending =>
                scan'.pending \ scan.pending =
                    {Append(root, n) : n \in {m \in subdirs(scan.tree, root) :
                                                 ~InIgnoreSet(m)}}]_vars
    /\ [](\A i \in 1..Len(scan.code_files) :
            \A k \in 1..Len(scan.code_files[i].dir) :
                ~InIgnoreSet(scan.code_files[i].dir[k]))

\* C15 witness: the walk is over; it went into pkg and enumerated a file
\* there, and enumerated nothing of demo.egg-info, which the tree holds.
C15_Witness ==
    /\ scan.pending = {}
    /\ \E e \in scan.tree : e.path.dir = << <<"demo", "egg-info">> >>
    /\ \E i \in 1..Len(scan.code_files) : scan.code_files[i].dir = << <<"pkg">> >>

\* The entry passes every check of the walk but the one on its size.
PassesOtherChecks(e) ==
    /\ walk_visits(e.path)
    /\ file_passes(e.path.name)
    /\ ~e.link
    /\ e.text

Enumerated(e) == \E i \in 1..Len(scan.code_files) : scan.code_files[i] = e.path

\* C16: a file of 1000 * 1024 bytes that passes every other check is in the
\* result of the walk, and a file of 1000 * 1024 + 1 bytes is never enumerated.
C16_SizeBoundary ==
    \A e \in scan.tree :
        /\ (scan.pending = {} /\ e.size = 1000 * 1024 /\ PassesOtherChecks(e))
              => Enumerated(e)
        /\ e.size = 1000 * 1024 + 1 => ~Enumerated(e)

\* C16 witness: the walk is over for a tree that holds a file of exactly the
\* cap, which was enumerated, and a file one byte larger, which was not.
C16_Witness ==
    /\ scan.pending = {}
    /\ \E e \in scan.tree :
          e.size = 1000 * 1024 /\ PassesOtherChecks(e) /\ Enumerated(e)
    /\ \E e \in scan.tree :
          e.size = 1000 * 1024 + 1 /\ PassesOtherChecks(e) /\ ~Enumerated(e)

\* The file names of WalkUniverse that follow the test-file naming convention:
\* the prefix test_ or the suffix _test before the extension.
TestNamed(name) == name[1] \in {"test_main", "util_test"}

\* C17: no file whose name follows the test-file naming convention is
\* enumerated.
C17_TestFilesExcluded ==
    \A i \in 1..Len(scan.code_files) : ~TestNamed(scan.code_files[i].name)

\* C18: on an existing tree safe_remove_dir first attempts the plain
\* recursive delete; whenever that attempt fails with permission denied,
\* whatever the path, it goes on to grant write permission to the entries of
\* the tree and has, when it returns, made exactly one more attempt; an
\* attempt that removed the tree is not followed by another.
C18_RetryOnPermissionDenied ==
    /\ [][(removal.at = "rmtree" /\ removal'.err = "PermissionError")
             => removal'.at = "chmod"]_vars
    /\ []((removal.at = "returned" /\ removal.err = "PermissionError")
             => (removal.chmods = 1 /\ removal.rmtrees = 2))
    /\ []((removal.at = "returned" /\ removal.err = "removed")
             => (removal.chmods = 0 /\ removal.rmtrees = 1))

\* The explanation of candidate i of job j is in the output tree.
Written(j, i) ==
    \E d \in out[j].docs :
        /\ d.path = MdPath(files[j][i])
        /\ Head(d.doc)[2] = files[j][i].name

\* individual_summaries holds one entry per processed candidate: every entry
\* is the entry of one candidate, no candidate has two, and a candidate whose
\* explanation is in the output tree has one.
OneSummaryEach(j) ==
    /\ \A e \in summaries[j] :
          /\ Cardinality({i \in 1..Len(files[j]) : files[j][i] = e.key}) = 1
          /\ Cardinality({x \in summaries[j] : x.key = e.key}) = 1
    /\ \A i \in 1..Len(files[j]) :
          Written(j, i) => \E e \in summaries[j] : e.key = files[j][i]

\* C19: a run that entered the per-file loop has, when it ends, called
\* generate_project_overview exactly once; the call is made when the loop
\* has gone through every candidate, with one summary per processed
\* candidate; and the archive is made of an output tree that holds the
\* overview.
C19_OverviewOnceAfterLoop ==
    /\ [][\A j \in JobIds :
            /\ overviews'[j] # overviews[j] =>
                  /\ overviews[j] = 0
                  /\ idx[j] = Len(files[j]) + 1
                  /\ OneSummaryEach(j)
            /\ (pc[j] = "archive" /\ zip'[j] # zip[j]) =>
                  /\ overviews[j] = 1
                  /\ OverviewPath \in Paths(out[j])
                  /\ OverviewPath \in Paths(zip'[j])]_vars
    /\ [](\A j \in JobIds :
            (pc[j] = "return" /\ files[j] # <<>>) => overviews[j] = 1)

\* The workspace entry a listed item names is gone after the step.
GoneAfter(item) ==
    CASE item[1] = "zip" -> ~zip'[item[2]].exists
      [] item[1] = "src" -> ~src'[item[2]].exists
      [] item[1] = "out" -> ~out'[item[2]].exists

C21_ArchiveKeptUntilOwnDownload ==
    [][\A j \in JobIds :
            /\ (db[j].status # "COMPLETE" /\ db'[j].status = "COMPLETE") =>
                    zip'[j].exists
            /\ (db[j].status = "COMPLETE" /\ zip[j].exists /\ ~zip'[j].exists) =>
                    (cl[j] = "zip" /\ cl'[j] # cl[j])]_vars

\* C23: a run touches documentation_<id>.zip only inside its make_archive
\* call, the last step before it returns the archive path; a run that has
\* returned None or raised has left no archive of its own, and a job whose
\* status is FAILED has no archive.
C23_NoArchiveUnlessReturned ==
    /\ [][\A j \in JobIds :
            (zip'[j] # zip[j] /\ zip'[j].exists) =>
                pc[j] \in {"make_archive", "archive"}]_vars
    /\ [](\A j \in JobIds :
            /\ (pc[j] \in {"finally_repo", "rmtree_repo", "finally_output", "return"}
                    /\ outcome[j] # Returned(ZipPath(j))) => ~zip[j].exists
            /\ db[j].status = "FAILED" => ~zip[j].exists)

PerFileDocs(j) == {e \in out[j].docs : e.path # OverviewPath}

\* C24: within one run every explanation is written to a path of the output
\* tree that no earlier candidate was written to and that is not the path of
\* _PROJECT_OVERVIEW.md, and when the overview has been written the output
\* tree holds as many per-file .md documents as candidates were processed.
C24_DistinctOutputPaths ==
    /\ [][\A j \in JobIds :
            (pc[j] = "write" /\ out[j].exists) =>
                /\ MdPath(files[j][idx[j]]) \notin Paths(out[j])
                /\ MdPath(files[j][idx[j]]) # OverviewPath]_vars
    /\ [](\A j \in JobIds :
            (pc[j] = "make_archive" /\ out[j].exists) =>
                Cardinality(PerFileDocs(j)) = Cardinality(summaries[j]))
====
